---- MODULE Spec2Model ----
(***************************************************************************)
(* Register snapshot of probe-rs (probe-rs/src/debug/registers.rs):        *)
(* Registers::from_core reads every platform register of a core once, and  *)
(* the snapshot is then read and changed in memory through the semantic    *)
(* accessors (frame pointer, program counter, stack pointer, return        *)
(* address) and the accessors by DWARF register number.                    *)
(*                                                                         *)
(* Option<T> is a sequence of length 0 (None) or 1 (Some(v)); a            *)
(* Result<u32, Error> is <<"Ok", v>> or <<"Err">>.  The HashMap<u32, u32>  *)
(* `values` is the set of its (key, value) entries, so that "one value per *)
(* key" is a property of insert and remove and not of the representation.  *)
(* The casts `i as u32` and `register_number as usize` are between         *)
(* unsigned widths that hold every index of the model and change nothing.  *)
(***************************************************************************)
EXTENDS Integers, Sequences, FiniteSets, Bags, TLC

\* Largest number of platform registers of a core whose capture is followed
\* read by read (SpecCapture).
MaxRegs == 4

\* Largest number of platform registers of a core whose snapshot is then
\* read and changed through the accessors (Spec).
MaxSnapshotRegs == 2

\* The register contents a read or a caller can supply.
Values == {0, 1}

Architectures == {"Arm", "Riscv"}

None == <<>>
Some(v) == <<v>>
OptionValues == {None} \cup {Some(v) : v \in Values}

Ok(v) == <<"Ok", v>>
Err == <<"Err">>
ReadResults == {Err} \cup {Ok(v) : v \in Values}

\* The register numbers callers pass to the accessors by number: 0, which
\* only from_core and these accessors write; 1, which the program counter and
\* the return address of Riscv name too; and 7, the frame pointer of Arm,
\* which no register file of Spec describes.
RegNums == {0, 1, 7}

\* Every register number an entry of a snapshot can have.
AllNums == 0 .. 15

VARIABLES
    core,       \* the hardware session: its architecture and register file
    registers,  \* the Registers value under construction, then the snapshot
    pc,         \* "from_core" while the capture loop runs, then "snapshot"
                \* ("panicked" had the loop indexed out of range)
    i,          \* the loop variable of from_core
    reads,      \* the register indices read from the core, in order
    replies,    \* what each of these reads returned, until from_core returns
    last        \* the last operation: its name, arguments and return value

vars == <<core, registers, pc, i, reads, replies, last>>

----------------------------------------------------------------------------
(* The register file of a core (crate::core::RegisterFile).                *)

RegisterFile(n) ==
    [platform_registers |-> [k \in 1 .. n |-> [name |-> <<"R", k - 1>>]]]

\* RegisterFile::platform_register(index): the descriptor at index.
platform_register(register_file, index) ==
    register_file.platform_registers[index + 1]

\* RegisterFile::get_platform_register(index): the descriptor, if any.
get_platform_register(register_file, index) ==
    IF index < Len(register_file.platform_registers)
    THEN Some(register_file.platform_registers[index + 1])
    ELSE None

\* Core::read_core_reg: any value, or a failure.
read_core_reg(c, descriptor) == ReadResults

----------------------------------------------------------------------------
(* HashMap<u32, u32>                                                       *)

HashMapNew == {}

insert(map, key, value) ==
    {e \in map : e[1] # key} \cup {<<key, value>>}

remove(map, key) ==
    {e \in map : e[1] # key}

\* HashMap::get(key).copied()
get(map, key) ==
    IF \E e \in map : e[1] = key
    THEN Some((CHOOSE e \in map : e[1] = key)[2])
    ELSE None

\* HashMap::iter(): every entry once, in an order left open.
iter(map) == SetToBag(map)

----------------------------------------------------------------------------
(* Registers                                                               *)

\* Lines 26-30 of from_core: the value before the first read.
from_core_new(c) ==
    [register_description |-> c.register_file,
     values               |-> HashMapNew,
     architecture         |-> c.architecture]

num_platform_registers(c) == Len(c.register_file.platform_registers)

\* Line 32: `for i in 0..num_platform_registers` goes on while i is in range,
\* and steps to the next index whatever the read returned.
from_core_continues(c, index) == index < num_platform_registers(c)

\* Reading the same register again after a failure.
from_core_advance_retry(index, result) ==
    IF result[1] = "Ok" THEN index + 1 ELSE index

from_core_advance(index, result) == index + 1

\* Storing the default value of a register whose read failed.
from_core_body_default_on_error(self, index, result) ==
    IF result[1] = "Ok"
    THEN [self EXCEPT !.values = insert(@, index, result[2])]
    ELSE [self EXCEPT !.values = insert(@, index, 0)]

\* Lines 33-39: the body of the loop, given what the read returned.
from_core_body(self, index, result) ==
    IF result[1] = "Ok"
    THEN [self EXCEPT !.values = insert(@, index, result[2])]
    ELSE self

\* Reading r11, the frame pointer of the Arm (not Thumb) calling convention.
get_frame_pointer_r11(self) ==
    CASE self.architecture = "Arm"   -> get(self.values, 11)
      [] self.architecture = "Riscv" -> get(self.values, 8)

get_frame_pointer(self) ==
    CASE self.architecture = "Arm"   -> get(self.values, 7)
      [] self.architecture = "Riscv" -> get(self.values, 8)

set_frame_pointer(self, value) ==
    LET register_address ==
            CASE self.architecture = "Arm"   -> 7
              [] self.architecture = "Riscv" -> 8
    IN  IF value # None
        THEN [self EXCEPT !.values = insert(@, register_address, value[1])]
        ELSE [self EXCEPT !.values = remove(@, register_address)]

\* Reading a program counter of Riscv kept apart from x1, at index 32.
get_program_counter_separate(self) ==
    CASE self.architecture = "Arm"   -> get(self.values, 15)
      [] self.architecture = "Riscv" -> get(self.values, 32)

get_program_counter(self) ==
    CASE self.architecture = "Arm"   -> get(self.values, 15)
      [] self.architecture = "Riscv" -> get(self.values, 1)

set_program_counter(self, value) ==
    LET register_address ==
            CASE self.architecture = "Arm"   -> 15
              [] self.architecture = "Riscv" -> 1
    IN  IF value # None
        THEN [self EXCEPT !.values = insert(@, register_address, value[1])]
        ELSE [self EXCEPT !.values = remove(@, register_address)]

get_stack_pointer(self) ==
    CASE self.architecture = "Arm"   -> get(self.values, 13)
      [] self.architecture = "Riscv" -> get(self.values, 2)

\* The two arms of the match exchanged.
set_stack_pointer_swapped(self, value) ==
    LET register_address ==
            CASE self.architecture = "Arm"   -> 2
              [] self.architecture = "Riscv" -> 13
    IN  IF value # None
        THEN [self EXCEPT !.values = insert(@, register_address, value[1])]
        ELSE [self EXCEPT !.values = remove(@, register_address)]

set_stack_pointer(self, value) ==
    LET register_address ==
            CASE self.architecture = "Arm"   -> 13
              [] self.architecture = "Riscv" -> 2
    IN  IF value # None
        THEN [self EXCEPT !.values = insert(@, register_address, value[1])]
        ELSE [self EXCEPT !.values = remove(@, register_address)]

get_return_address(self) ==
    CASE self.architecture = "Arm"   -> get(self.values, 14)
      [] self.architecture = "Riscv" -> get(self.values, 1)

\* Clearing the whole map, not one entry, when no value is given.
set_return_address_clear_all(self, value) ==
    LET register_address ==
            CASE self.architecture = "Arm"   -> 14
              [] self.architecture = "Riscv" -> 1
    IN  IF value # None
        THEN [self EXCEPT !.values = insert(@, register_address, value[1])]
        ELSE [self EXCEPT !.values = HashMapNew]

set_return_address(self, value) ==
    LET register_address ==
            CASE self.architecture = "Arm"   -> 14
              [] self.architecture = "Riscv" -> 1
    IN  IF value # None
        THEN [self EXCEPT !.values = insert(@, register_address, value[1])]
        ELSE [self EXCEPT !.values = remove(@, register_address)]

\* Reporting a register without an entry as zero.
get_value_by_dwarf_register_number_or_zero(self, register_number) ==
    LET found == get(self.values, register_number)
    IN  IF found # None THEN found ELSE Some(0)

get_value_by_dwarf_register_number(self, register_number) ==
    get(self.values, register_number)

\* Naming only the registers that have a captured value.
get_name_by_dwarf_register_number_captured(self, register_number) ==
    LET found == get_platform_register(self.register_description, register_number)
    IN  IF found # None /\ get(self.values, register_number) # None
        THEN Some(found[1].name)
        ELSE None

get_name_by_dwarf_register_number(self, register_number) ==
    LET found == get_platform_register(self.register_description, register_number)
    IN  IF found # None THEN Some(found[1].name) ELSE None

\* Storing zero, not removing the entry, when no value is given.
set_by_dwarf_register_number_zero(self, register_number, value) ==
    IF value # None
    THEN [self EXCEPT !.values = insert(@, register_number, value[1])]
    ELSE [self EXCEPT !.values = insert(@, register_number, 0)]

set_by_dwarf_register_number(self, register_number, value) ==
    IF value # None
    THEN [self EXCEPT !.values = insert(@, register_number, value[1])]
    ELSE [self EXCEPT !.values = remove(@, register_number)]

\* Yielding only the entries of the registers the description knows.
registers_iter_described(self) ==
    iter({e \in self.values : e[1] < Len(self.register_description.platform_registers)})

registers_iter(self) == iter(self.values)

----------------------------------------------------------------------------
(* The state machine                                                       *)

Op(name, num, arg, ret) == [op |-> name, num |-> num, arg |-> arg, ret |-> ret]

InitWith(max_registers) ==
    /\ \E a \in Architectures, n \in 0 .. max_registers :
           core = [architecture |-> a, register_file |-> RegisterFile(n)]
    /\ registers = from_core_new(core)
    /\ pc = "from_core"
    /\ i = 0
    /\ reads = <<>>
    /\ replies = <<>>
    /\ last = Op("new", -1, None, None)

Init == InitWith(MaxSnapshotRegs)

InitCapture == InitWith(MaxRegs)

\* One iteration of the loop of from_core: one read of the core.  Indexing the
\* platform registers out of range panics.
ReadCoreReg ==
    /\ pc = "from_core"
    /\ from_core_continues(core, i)
    /\ IF i < Len(core.register_file.platform_registers)
       THEN /\ \E result \in read_core_reg(core, platform_register(core.register_file, i)) :
                   /\ registers' = from_core_body(registers, i, result)
                   /\ replies' = Append(replies, result)
                   /\ last' = Op("read_core_reg", i, None, result)
                   /\ i' = from_core_advance(i, result)
            /\ reads' = Append(reads, i)
            /\ UNCHANGED <<core, pc>>
       ELSE /\ pc' = "panicked"
            /\ UNCHANGED <<core, registers, i, reads, replies, last>>

\* The loop is over: from_core returns `registers`.
FromCoreReturn ==
    /\ pc = "from_core"
    /\ ~from_core_continues(core, i)
    /\ pc' = "snapshot"
    /\ replies' = <<>>
    /\ last' = Op("from_core", -1, None, registers)
    /\ UNCHANGED <<core, registers, i, reads>>

Getter(name, num, ret) ==
    /\ pc = "snapshot"
    /\ last' = Op(name, num, None, ret)
    /\ UNCHANGED <<core, registers, pc, i, reads, replies>>

Setter(name, num, value, after) ==
    /\ pc = "snapshot"
    /\ registers' = after
    /\ last' = Op(name, num, value, None)
    /\ UNCHANGED <<core, pc, i, reads, replies>>

GetFramePointer == Getter("get_frame_pointer", -1, get_frame_pointer(registers))

SetFramePointer ==
    \E value \in OptionValues :
        Setter("set_frame_pointer", -1, value, set_frame_pointer(registers, value))

GetProgramCounter == Getter("get_program_counter", -1, get_program_counter(registers))

SetProgramCounter ==
    \E value \in OptionValues :
        Setter("set_program_counter", -1, value, set_program_counter(registers, value))

GetStackPointer == Getter("get_stack_pointer", -1, get_stack_pointer(registers))

SetStackPointer ==
    \E value \in OptionValues :
        Setter("set_stack_pointer", -1, value, set_stack_pointer(registers, value))

GetReturnAddress == Getter("get_return_address", -1, get_return_address(registers))

SetReturnAddress ==
    \E value \in OptionValues :
        Setter("set_return_address", -1, value, set_return_address(registers, value))

GetValueByDwarfRegisterNumber ==
    \E n \in RegNums :
        Getter("get_value_by_dwarf_register_number", n,
               get_value_by_dwarf_register_number(registers, n))

GetNameByDwarfRegisterNumber ==
    \E n \in RegNums :
        Getter("get_name_by_dwarf_register_number", n,
               get_name_by_dwarf_register_number(registers, n))

SetByDwarfRegisterNumber ==
    \E n \in RegNums, value \in OptionValues :
        Setter("set_by_dwarf_register_number", n, value,
               set_by_dwarf_register_number(registers, n, value))

RegistersIter == Getter("registers", -1, registers_iter(registers))

Next ==
    \/ ReadCoreReg
    \/ FromCoreReturn
    \/ GetFramePointer
    \/ SetFramePointer
    \/ GetProgramCounter
    \/ SetProgramCounter
    \/ GetStackPointer
    \/ SetStackPointer
    \/ GetReturnAddress
    \/ SetReturnAddress
    \/ GetValueByDwarfRegisterNumber
    \/ GetNameByDwarfRegisterNumber
    \/ SetByDwarfRegisterNumber
    \/ RegistersIter

Spec == Init /\ [][Next]_vars

\* from_core alone, for larger register files.
NextCapture ==
    \/ ReadCoreReg
    \/ FromCoreReturn

SpecCapture == InitCapture /\ [][NextCapture]_vars

----------------------------------------------------------------------------
(* What the claims speak of                                                *)

Roles == {"frame_pointer", "program_counter", "stack_pointer", "return_address"}

\* The table of the specification: the raw index of each role.
T ==
    [Arm   |-> [frame_pointer |-> 7, program_counter |-> 15,
                stack_pointer |-> 13, return_address |-> 14],
     Riscv |-> [frame_pointer |-> 8, program_counter |-> 1,
                stack_pointer |-> 2, return_address |-> 1]]

GetRole(role, self) ==
    CASE role = "frame_pointer"   -> get_frame_pointer(self)
      [] role = "program_counter" -> get_program_counter(self)
      [] role = "stack_pointer"   -> get_stack_pointer(self)
      [] role = "return_address"  -> get_return_address(self)

SetRole(role, self, value) ==
    CASE role = "frame_pointer"   -> set_frame_pointer(self, value)
      [] role = "program_counter" -> set_program_counter(self, value)
      [] role = "stack_pointer"   -> set_stack_pointer(self, value)
      [] role = "return_address"  -> set_return_address(self, value)

GetterName(role) ==
    CASE role = "frame_pointer"   -> "get_frame_pointer"
      [] role = "program_counter" -> "get_program_counter"
      [] role = "stack_pointer"   -> "get_stack_pointer"
      [] role = "return_address"  -> "get_return_address"

SetterName(role) ==
    CASE role = "frame_pointer"   -> "set_frame_pointer"
      [] role = "program_counter" -> "set_program_counter"
      [] role = "stack_pointer"   -> "set_stack_pointer"
      [] role = "return_address"  -> "set_return_address"

SetterNames ==
    {"set_frame_pointer", "set_program_counter", "set_stack_pointer",
     "set_return_address", "set_by_dwarf_register_number"}

GetterNames ==
    {"get_frame_pointer", "get_program_counter", "get_stack_pointer",
     "get_return_address", "get_value_by_dwarf_register_number",
     "get_name_by_dwarf_register_number", "registers"}

\* The raw indices that have an entry, and the entries at one index.
Captured(map) == {e[1] : e \in map}
EntriesAt(map, n) == {e \in map : e[1] = n}
OneValuePerIndex(map) == \A e1, e2 \in map : e1[1] = e2[1] => e1 = e2

\* The indices whose read failed, and the entries the successful reads give.
FailedReads == {reads[k] : k \in {j \in 1 .. Len(replies) : replies[j][1] = "Err"}}
ReadEntries ==
    {<<reads[k], replies[k][2]>> : k \in {j \in 1 .. Len(replies) : replies[j][1] = "Ok"}}

----------------------------------------------------------------------------
\* C1: from_core never aborts and returns a snapshot whose captured indices
\* are exactly 0..N-1 without the indices whose read failed, each with the
\* value its read returned.
C1_PartialCapture ==
    [][ /\ pc' # "panicked"
        /\ last'.op = "from_core" =>
              LET N == num_platform_registers(core)
                  returned == last'.ret
              IN  /\ Len(replies) = N
                  /\ FailedReads \subseteq 0 .. (N - 1)
                  /\ Captured(returned.values) = (0 .. (N - 1)) \ FailedReads
                  /\ returned.values = ReadEntries
                  /\ OneValuePerIndex(returned.values)
                  /\ registers' = returned
                  /\ returned.architecture = core.architecture
                  /\ returned.register_description = core.register_file ]_vars

\* from_core has returned from a core of at least three registers where the
\* read of register 1 failed and those of registers 0 and 2 succeeded.
C1_Witness ==
    /\ last.op = "from_core"
    /\ num_platform_registers(core) >= 3
    /\ {0, 2} \subseteq Captured(registers.values)
    /\ 1 \notin Captured(registers.values)

\* C2: the reads of one capture are those of index 0, 1, ..., N-1 in this
\* order, each once, whatever fails; after the N-th read no read is left and
\* from_core returns.
C2_ReadsInOrder ==
    LET N == num_platform_registers(core)
    IN  /\ Len(reads) <= N
        /\ \A k \in 1 .. Len(reads) : reads[k] = k - 1
        /\ pc = "from_core" => Len(reads) = i
        /\ pc = "from_core" /\ Len(reads) < N => ENABLED ReadCoreReg /\ ~ENABLED FromCoreReturn
        /\ pc = "from_core" /\ Len(reads) = N => ~ENABLED ReadCoreReg /\ ENABLED FromCoreReturn
        /\ pc # "from_core" => pc = "snapshot" /\ Len(reads) = N

\* from_core has returned after reading four registers, of which the first
\* and the third failed.
C2_Witness ==
    /\ last.op = "from_core"
    /\ reads = <<0, 1, 2, 3>>
    /\ Captured(registers.values) = {1, 3}

\* The raw index a setter call wrote to, by the table of the specification.
SetterTarget(architecture, call) ==
    IF call.op = "set_by_dwarf_register_number"
    THEN call.num
    ELSE T[architecture][CASE call.op = "set_frame_pointer"   -> "frame_pointer"
                           [] call.op = "set_program_counter" -> "program_counter"
                           [] call.op = "set_stack_pointer"   -> "stack_pointer"
                           [] call.op = "set_return_address"  -> "return_address"]

\* C3: for every role and architecture, the getter of a role right after its
\* setter returns what was set, a value or absent.
C3_RoundTrip ==
    \A role \in Roles :
        last.op = SetterName(role) => GetRole(role, registers) = last.arg

\* The frame pointer of an Arm snapshot was just set to 1.
C3_Witness ==
    /\ registers.architecture = "Arm"
    /\ last.op = "set_frame_pointer"
    /\ last.arg = Some(1)

\* C4: the accessors of a role are the accessors by number at the index the
\* table gives for the architecture and the role.
C4_SemanticIsGeneric ==
    \A role \in Roles :
        LET index == T[registers.architecture][role]
        IN  /\ GetRole(role, registers)
                = get_value_by_dwarf_register_number(registers, index)
            /\ \A x \in OptionValues :
                   SetRole(role, registers, x)
                       = set_by_dwarf_register_number(registers, index, x)

\* The stack pointer of an Arm snapshot was just set, and index 13 holds it.
C4_Witness ==
    /\ registers.architecture = "Arm"
    /\ last.op = "set_stack_pointer"
    /\ last.arg # None
    /\ get_value_by_dwarf_register_number(registers, 13) = last.arg

\* C5: on Riscv the program counter and the return address are the same
\* entry, so each getter returns what the other's setter stored; on Arm
\* setting a role never changes what the getter of another role returns.
C5_RiscvAlias ==
    /\ registers.architecture = "Riscv" =>
          /\ get_program_counter(registers) = get_return_address(registers)
          /\ last.op = "set_program_counter" =>
                get_return_address(registers) = last.arg
          /\ last.op = "set_return_address" =>
                get_program_counter(registers) = last.arg
          /\ \A x \in OptionValues :
                /\ get_return_address(set_program_counter(registers, x)) = x
                /\ get_program_counter(set_return_address(registers, x)) = x
    /\ registers.architecture = "Arm" =>
          \A r, s \in Roles, x \in OptionValues :
              r # s => GetRole(s, SetRole(r, registers, x)) = GetRole(s, registers)

\* The return address of a Riscv snapshot was just cleared while the frame
\* pointer holds a value.
C5_Witness ==
    /\ registers.architecture = "Riscv"
    /\ last.op = "set_return_address"
    /\ last.arg = None
    /\ get_frame_pointer(registers) # None

\* C6: registers() yields every entry of the map as it is at the call, each
\* once and no index twice, and leaves the snapshot as it was.
C6_RegistersYieldsEntries ==
    [][ last'.op = "registers" =>
            LET yielded == last'.ret
            IN  /\ registers' = registers
                /\ BagToSet(yielded) = registers'.values
                /\ \A e \in BagToSet(yielded) : CopiesIn(e, yielded) = 1
                /\ OneValuePerIndex(BagToSet(yielded))
                /\ \A n \in AllNums :
                       get_value_by_dwarf_register_number(registers', n) = None
                           <=> n \notin Captured(BagToSet(yielded)) ]_vars

\* registers() was called on a snapshot with an entry at index 7 and another.
C6_Witness ==
    /\ last.op = "registers"
    /\ 7 \in Captured(BagToSet(last.ret))
    /\ Cardinality(BagToSet(last.ret)) >= 2

\* C7: clearing an index by number twice gives the snapshot that clearing it
\* once gives, without an entry at the index, whether it had one or not.
C7_ClearIsIdempotent ==
    \A n \in AllNums :
        LET once  == set_by_dwarf_register_number(registers, n, None)
            twice == set_by_dwarf_register_number(once, n, None)
        IN  /\ twice = once
            /\ get_value_by_dwarf_register_number(once, n) = None
            /\ last.op = "set_by_dwarf_register_number" /\ last.arg = None
                   /\ last.num = n => once = registers

\* Index 0 was just cleared by number in a snapshot that keeps other entries.
C7_Witness ==
    /\ last.op = "set_by_dwarf_register_number"
    /\ last.arg = None
    /\ last.num = 0
    /\ registers.values # {}

\* C8: the name of index n is absent for n at or beyond the number of
\* platform registers and the description's name below it, whatever the
\* values the snapshot holds.
C8_NameFromDescription ==
    LET N == Len(core.register_file.platform_registers)
    IN  /\ \A n \in AllNums \cup {MaxRegs + 1} :
               /\ n >= N => get_name_by_dwarf_register_number(registers, n) = None
               /\ n < N =>
                     get_name_by_dwarf_register_number(registers, n)
                         = Some(core.register_file.platform_registers[n + 1].name)
        /\ last.op = "get_name_by_dwarf_register_number" =>
               last.ret = IF last.num < N
                          THEN Some(core.register_file.platform_registers[last.num + 1].name)
                          ELSE None

\* The name of index 7 was asked for and is absent, while index 7 has a value.
C8_Witness ==
    /\ last.op = "get_name_by_dwarf_register_number"
    /\ last.num = 7
    /\ last.ret = None
    /\ get_value_by_dwarf_register_number(registers, 7) # None

\* What a getter reports is what the map holds: absent exactly without an
\* entry, and Some(v), zero included, exactly with the one entry (n, v).
GettersReportEntries ==
    /\ OneValuePerIndex(registers.values)
    /\ \A n \in AllNums :
           LET now == get_value_by_dwarf_register_number(registers, n)
               at  == EntriesAt(registers.values, n)
           IN  /\ now = None <=> at = {}
               /\ \A v \in Values : now = Some(v) <=> at = {<<n, v>>}
    /\ \A role \in Roles :
           GetRole(role, registers) = None
               <=> EntriesAt(registers.values, T[registers.architecture][role]) = {}
    /\ last.op = "get_value_by_dwarf_register_number" =>
           last.ret = get_value_by_dwarf_register_number(registers, last.num)
    /\ \A role \in Roles :
           last.op = GetterName(role) => last.ret = GetRole(role, registers)

\* The index the last call stored to or cleared (-1: none), and what it left.
Written(architecture, call) ==
    CASE call.op = "read_core_reg" ->
             IF call.ret[1] = "Ok"
             THEN [index |-> call.num, value |-> Some(call.ret[2])]
             ELSE [index |-> -1, value |-> None]
      [] call.op \in SetterNames ->
             [index |-> SetterTarget(architecture, call), value |-> call.arg]
      [] OTHER -> [index |-> -1, value |-> None]

\* C9: an index has at most one value, and the value read at an index is the
\* one last stored there by a successful read or a setter, Some(0) included,
\* and absent when nothing was stored or the index was last cleared: the
\* getters report the entries, and a step changes the entry of the index it
\* writes, to what it writes, and no other.
C9_AbsentIsNotZero ==
    /\ []GettersReportEntries
    /\ [][ IF last'.op \in GetterNames \cup {"from_core"}
           THEN registers'.values = registers.values
           ELSE LET written == Written(registers.architecture, last')
                IN  /\ {e \in registers'.values : e[1] # written.index}
                        = {e \in registers.values : e[1] # written.index}
                    /\ written.index # -1 =>
                           get_value_by_dwarf_register_number(registers', written.index)
                               = written.value ]_vars

\* Index 0 holds the value 0 and the getter by number has returned Some(0).
C9_Witness ==
    /\ last.op = "get_value_by_dwarf_register_number"
    /\ last.num = 0
    /\ last.ret = Some(0)
    /\ <<0, 0>> \in registers.values

\* C10: a setter changes at most the entry at its one index and a getter or
\* registers() changes nothing; the architecture and the description stay
\* those of the core; on Arm a role setter leaves the other roles' getters.
C10_Frame ==
    [][ /\ registers'.architecture = registers.architecture
        /\ registers'.architecture = core.architecture
        /\ registers'.register_description = registers.register_description
        /\ registers'.register_description = core.register_file
        /\ last'.op \in GetterNames => registers' = registers
        /\ last'.op \in SetterNames =>
               LET target == SetterTarget(registers.architecture, last')
               IN  /\ \A e \in (registers'.values \ registers.values)
                                  \cup (registers.values \ registers'.values) :
                          e[1] = target
                   /\ registers.architecture = "Arm"
                          /\ last'.op # "set_by_dwarf_register_number" =>
                          \A s \in Roles :
                              SetterName(s) # last'.op =>
                                  GetRole(s, registers') = GetRole(s, registers)
      ]_vars

\* The return address of an Arm snapshot was just cleared while the other
\* three roles and index 0 hold values.
C10_Witness ==
    /\ registers.architecture = "Arm"
    /\ last.op = "set_return_address"
    /\ last.arg = None
    /\ get_frame_pointer(registers) # None
    /\ get_program_counter(registers) # None
    /\ get_stack_pointer(registers) # None
    /\ get_value_by_dwarf_register_number(registers, 0) # None

====
